---- MODULE Spec2Model ----
(***************************************************************************)
(* Model of the two scripts of the repository:                             *)
(*   archiveDataToJSON_MOD.py        (token, folders, reports, layers,     *)
(*                                    streamed JSON array)                 *)
(*   MachineTests_TokenMismatchIssue.py (cross-machine token test)         *)
(* Every blocking HTTP request is one step: the request is posted, the     *)
(* server's response is drawn from a small set, and the code that follows  *)
(* it up to the next request runs in the same step.                        *)
(***************************************************************************)
EXTENDS Integers, Sequences, FiniteSets, TLC

\* ------------------------------------------------------------------ bounds
\* longest "folders" array a server returns
MaxFolders == 3
\* most reports a server returns in one run, over all the folders
MaxReports == 3
\* longest "layers" array a server returns for one map service
MaxLayers == 2
\* most re-sends of one request that the model follows (the diagnostic script)
MaxRetries == 2
\* longest "extensions" array of a report, where the flags of a record are examined
MaxExtensions == 2

\* ------------------------------------------------------- values and inputs
\* Python's None, and the value standing for a key a JSON object does not have
None == "None"
NoKey == "<missing>"

GEODATA_ALIAS == "Geodata Data"
GROUPED_TYPES_LIST ==
    {"GeometryServer", "SearchServer", "GlobeServer", "GPServer", "GeocodeServer", "GeoDataServer"}
RESULT_FILE == "GeodataServices.json"
SERVER_MACHINE_NAMES ==
    [i \in 0..3 |-> CASE i = 0 -> "machine1" [] i = 1 -> "machine2"
                      [] i = 2 -> "machine3" [] OTHER -> "machine4"]
SERVER_URL_ADMIN_SERVICES == "arcgis/admin/services"
SERVER_URL_GENERATE_TOKEN == "arcgis/admin/generateToken"
GEODATA_ROOT == "https://geodata.md.gov/imap/rest/services"
MT_SERVER_MACHINE_NAMES == <<"machine1", "machine2", "machine3", "machine4">>

\* The strings a "folders" array may hold (none holds a "/"; the empty string is one of
\* them), and the order of strings under Python's comparison
\* ("" < "/" < "A" < "B" < "C" < "System" < "Utilities").
FolderNames == {"", "A", "B", "C", "System", "Utilities"}
\* The diagnostic script reads nothing but the names: one besides the empty string and
\* the removed two.
TestFolderNames == {"", "A", "System", "Utilities"}
StringOrder(s) ==
    CASE s = "" -> 0 [] s = "/" -> 1 [] s = "A" -> 2 [] s = "B" -> 3 [] s = "C" -> 4
      [] s = "System" -> 5 [] OTHER -> 6

\* The token a machine's generateToken endpoint issues: an opaque string, neither
\* null nor the literal "getToken".
MintedToken(machine_name) ==
    CASE machine_name = "machine1" -> "token1" [] machine_name = "machine2" -> "token2"
      [] machine_name = "machine3" -> "token3" [] OTHER -> "token4"

SeqsUpTo(S, n) == UNION {[1..k -> S] : k \in 0..n}
\* Arrays of well-formed elements, and the same followed by one malformed element: a
\* loop that meets a malformed element reads nothing after it.
ArraysUpTo(good, bad, n) ==
    SeqsUpTo(good, n) \cup {Append(s, bad) : s \in SeqsUpTo(good, n - 1)}

\* A JSON value that is expected to be an array: either an array (items) or
\* something a for loop / set() cannot iterate (null, a number).
Array(items) == [iterable |-> TRUE, items |-> items]
NotIterable == [iterable |-> FALSE, items |-> <<>>]

\* What a request can come back with: the five ways get_value_from_response
\* fails, or a JSON object holding the searched key.
FailureOutcomes == {"transport", "html", "decode", "keyerror", "typeerror"}
Responses(values, dummy) ==
    {[outcome |-> "ok", value |-> v] : v \in values}
        \cup {[outcome |-> o, value |-> dummy] : o \in FailureOutcomes}

TokenResponses(machine_name) == Responses({MintedToken(machine_name)}, None)
FoldersResponses(names) ==
    Responses({Array(s) : s \in SeqsUpTo(names, MaxFolders)} \cup {NotIterable}, NotIterable)

\* One entry of a "reports" array. The i-th entry of an array is the service named
\* ServiceName(i); an entry without the keys ReportObject reads has type NoKey.
ServiceName(i) == "service" \o ToString(i)
\* A JSON value is kept as its JSON text: true, false, "true", "false". One entry of
\* "extensions" has a typeName and an enabled value.
Extension(typeName, enabled) == [typeName |-> typeName, enabled |-> enabled]
ReportKinds ==
    {[type |-> "GPServer", realTimeState |-> "STARTED", isCached |-> NoKey,
      extensions |-> <<>>],
     [type |-> "MapServer", realTimeState |-> "STARTED", isCached |-> "true",
      extensions |-> <<Extension("WMSServer", "\"true\"")>>],
     [type |-> "MapServer", realTimeState |-> "STOPPED", isCached |-> "false",
      extensions |-> <<>>],
     [type |-> "ImageServer", realTimeState |-> "STARTED", isCached |-> NoKey,
      extensions |-> <<Extension("WMSServer", "\"false\"")>>],
     [type |-> "StreamServer", realTimeState |-> "STARTED", isCached |-> NoKey,
      extensions |-> <<>>]}
MalformedReport ==
    [type |-> NoKey, realTimeState |-> NoKey, isCached |-> NoKey, extensions |-> <<>>]
Report(kind, i) ==
    [type |-> kind.type, serviceName |-> ServiceName(i),
     status |-> [realTimeState |-> kind.realTimeState],
     properties |-> [isCached |-> kind.isCached],
     extensions |-> kind.extensions]

\* The reports on which the flags of a record are examined: every type main() tells
\* apart, with every "extensions" array up to MaxExtensions entries, an entry being of
\* one of the four types looked for or of another, its keys present or not.
ExtensionTypeNames ==
    {"FeatureServer", "KmlServer", "WMSServer", "WFSServer", "NAServer", NoKey}
ExtensionEntries ==
    {Extension(t, e) : t \in ExtensionTypeNames, e \in {"\"true\"", "false", NoKey}}
FlagReportKinds ==
    {[type |-> t, realTimeState |-> st, isCached |-> c, extensions |-> x] :
        t \in {"GPServer", "MapServer", "ImageServer", "StreamServer"},
        st \in {"STARTED", "STOPPED"},
        c \in {"true", "false", NoKey},
        x \in SeqsUpTo(ExtensionEntries, MaxExtensions)}
ReportsPayloads(longest) ==
    {Array([i \in DOMAIN kinds |-> Report(kinds[i], i)]) : kinds \in ArraysUpTo(ReportKinds, MalformedReport, longest)}
        \cup {NotIterable}
ReportsResponses(longest) == Responses(ReportsPayloads(longest), NotIterable)

\* One entry of a "layers" array: a layer with id and name, or an object lacking one.
LayerKinds == {[id |-> 0, name |-> "layer"]}
MalformedLayer == [id |-> -1, name |-> NoKey]
LayersPayloads ==
    {Array(s) : s \in ArraysUpTo(LayerKinds, MalformedLayer, MaxLayers)} \cup {NotIterable}
LayersResponses == Responses(LayersPayloads, NotIterable)

\* ------------------------------------------------------------------ state
VARIABLES
    script,                  \* which script runs: "archive" or "machine_tests"
    pc,                      \* position of main()
    machine,                 \* the machine chosen for this run, or taken by the collecting loop
    token,                   \* the token last obtained
    folders,                 \* the folder list last built
    machine_object,          \* archive: MachineObject of the chosen machine
    service_results_file_handler,
                             \* archive: None until RESULT_FILE is opened for writing (which
                             \* empties it), then "open", then "closed"
    file,                    \* archive: what was written to RESULT_FILE, one entry per symbol or record
    folder_iteration_count,  \* archive: folders taken from the list so far
    folder,                  \* archive: the folder being processed
    reports,                 \* archive: the "reports" array of that folder
    report_index,            \* archive: entries of reports already processed
    report_iteration_count,  \* archive: records written for that folder
    reports_received,        \* archive: reports received in this run, over all the folders
    line,                    \* archive: the line last built, in full
    log,                     \* the requests posted so far, in order, with what came back
    payload_shape,           \* how the payload of the last response differs from the expected
    machine_objects_list,    \* machine_tests: Machine_Objects collected so far
    outer,                   \* machine_tests: index of outer_machine_object
    inner,                   \* machine_tests: index of inner_machine_object
    folder_index,            \* machine_tests: index of folder in inner's folders_list
    attempts                 \* machine_tests: times the current request was posted

vars ==
    <<script, pc, machine, token, folders, machine_object, service_results_file_handler,
      file, folder_iteration_count, folder, reports, report_index, report_iteration_count, reports_received, line, log, payload_shape,
      machine_objects_list, outer, inner, folder_index, attempts>>

archive_vars ==
    <<machine_object, service_results_file_handler, file, folder_iteration_count, folder, reports,
      report_index, report_iteration_count, reports_received, line>>
tests_vars == <<machine_objects_list, outer, inner, folder_index, attempts>>

\* ---------------------------------------------------------- shared helpers
\* Mutant of create_params_for_request: the token is left out of the parameters.
create_params_for_request_NoToken(token_action) ==
    IF token_action = "getToken"
    THEN [credentials |-> TRUE, token |-> None, f |-> "json"]
    ELSE [credentials |-> FALSE, token |-> None, f |-> "json"]

create_params_for_request(token_action) ==
    IF token_action = None
    THEN [credentials |-> FALSE, token |-> None, f |-> "json"]
    ELSE IF token_action = "getToken"
    THEN [credentials |-> TRUE, token |-> None, f |-> "json"]
    ELSE [credentials |-> FALSE, token |-> token_action, f |-> "json"]

\* Mutants of get_value_from_response: a missing key, or a failed post, is let through.
get_value_from_response_KeyErrorReturns(response) ==
    IF response.outcome \in {"ok", "keyerror"}
    THEN [action |-> "return", value |-> response.value]
    ELSE [action |-> "exit", value |-> response.value]
get_value_from_response_TransportReturns(response) ==
    IF response.outcome \in {"ok", "transport"}
    THEN [action |-> "return", value |-> response.value]
    ELSE [action |-> "exit", value |-> response.value]

\* Mutant of get_value_from_response: the Content-Type is not looked at.
get_value_from_response_HtmlReturns(response) ==
    IF response.outcome \in {"ok", "html"}
    THEN [action |-> "return", value |-> response.value]
    ELSE [action |-> "exit", value |-> response.value]

\* archiveDataToJSON_MOD.get_value_from_response: every failure exits the process.
get_value_from_response(response) ==
    IF response.outcome = "ok"
    THEN [action |-> "return", value |-> response.value]
    ELSE [action |-> "exit", value |-> response.value]

create_random_int(upper_integer) == 0..(upper_integer - 1)

\* list.sort(): insertion into a sorted sequence, by Python's string order
RECURSIVE SortedInsert(_, _)
SortedInsert(s, x) ==
    IF s = <<>> THEN <<x>>
    ELSE IF StringOrder(x) <= StringOrder(Head(s)) THEN <<x>> \o s
    ELSE <<Head(s)>> \o SortedInsert(Tail(s), x)
RECURSIVE Sort(_)
Sort(s) == IF s = <<>> THEN <<>> ELSE SortedInsert(Sort(Tail(s)), Head(s))

\* list(set(...)): the elements of a set in some order
RECURSIVE SetToList(_)
SetToList(S) ==
    IF S = {} THEN <<>>
    ELSE LET x == CHOOSE y \in S : TRUE IN <<x>> \o SetToList(S \ {x})

Elements(s) == {s[i] : i \in DOMAIN s}

remove_folders == {"System", "Utilities"}

\* Mutant of BuildFolders: the list is filtered without going through a set.
BuildFolders_KeepsDuplicates(payload) ==
    Sort(Append(SelectSeq(payload, LAMBDA f : f \notin remove_folders), ""))

\* Mutant of BuildFolders: only one of the two folders is removed.
BuildFolders_KeepsSystem(payload) ==
    Sort(Append(SetToList(Elements(payload) \ {"Utilities"}), ""))

\* folders = list(set(folders) - set(remove_folders)); folders.append(""); folders.sort()
BuildFolders(payload) ==
    Sort(Append(SetToList(Elements(payload) \ remove_folders), ""))

\* How the payload of a response differs from what main() expects of it: not an array
\* ("not_iterable"), or an array with an element lacking a key main() reads
\* ("bad_element"). A response without the searched key has no payload ("none").
FoldersShape(response) ==
    IF response.outcome # "ok" THEN "none"
    ELSE IF response.value.iterable THEN "expected" ELSE "not_iterable"
ReportsShape(response) ==
    IF response.outcome # "ok" THEN "none"
    ELSE IF ~response.value.iterable THEN "not_iterable"
    ELSE IF \E i \in DOMAIN response.value.items : response.value.items[i].type = NoKey
    THEN "bad_element" ELSE "expected"
LayersShape(response) ==
    IF response.outcome # "ok" THEN "none"
    ELSE IF ~response.value.iterable THEN "not_iterable"
    ELSE IF \E i \in DOMAIN response.value.items : response.value.items[i].name = NoKey
    THEN "bad_element" ELSE "expected"

\* a payload main() does not look into (a token, the reports of the diagnostic script)
UninspectedShape(response) == IF response.outcome # "ok" THEN "none" ELSE "expected"

Request(machine_name, endpoint, folder_path, service, params, response) ==
    [machine |-> machine_name, endpoint |-> endpoint, folder |-> folder_path,
     service |-> service, params |-> params, outcome |-> response.outcome]

\* ------------------------------------------------------------------- Init
Init ==
    /\ script \in {"archive", "machine_tests"}
    /\ pc = IF script = "archive" THEN "start" ELSE "get_token"
    /\ machine = None
    /\ token = None
    /\ folders = <<>>
    /\ machine_object = [machine_name |-> None, token |-> None, folders_list |-> <<>>]
    /\ service_results_file_handler = None
    /\ file = <<>>
    /\ folder_iteration_count = 0
    /\ folder = None
    /\ reports = <<>>
    /\ report_index = 0
    /\ report_iteration_count = 0
    /\ reports_received = 0
    /\ line = <<>>
    /\ log = <<>>
    /\ payload_shape = "none"
    /\ machine_objects_list = <<>>
    /\ outer = 0
    /\ inner = 0
    /\ folder_index = 0
    /\ attempts = 0

\* ------------------------------------------------- archiveDataToJSON_MOD.py
Sym(c) == [sym |-> c]
IsRecord(entry) == "ServiceName" \in DOMAIN entry

\* str.replace("/", "") on the strings the folder setter receives
RemoveSlashes(value) ==
    IF value \in {"/", "//"} THEN ""
    ELSE IF \E f \in FolderNames : value = f \o "/"
    THEN CHOOSE f \in FolderNames : value = f \o "/"
    ELSE value

\* Mutant of IsRootFolder: the root entry is processed like any folder.
IsRootFolder_Never(f) == FALSE

\* if folder == "" or folder == "/": continue
IsRootFolder(f) == f = "" \/ f = "/"

HasReportKeys(report) == report.type # NoKey

\* str(value) of a decoded JSON value: a string is itself, a boolean is True or False
Str(value) ==
    CASE value = "true" -> "True" [] value = "false" -> "False"
      [] value = "\"true\"" -> "true" [] value = "\"false\"" -> "false"
      [] OTHER -> value

\* Mutant of extract_extension_properties: typeName is not compared.
extract_extension_properties_AnyType(extensions_dict, name_check) ==
    SelectSeq(extensions_dict.extensions, LAMBDA entity : entity.typeName # NoKey)

\* [entity for entity in extensions_dict["extensions"] if entity["typeName"] == name_check]
extract_extension_properties(extensions_dict, name_check) ==
    SelectSeq(extensions_dict.extensions, LAMBDA entity : entity.typeName = name_check)

\* entity["typeName"] raises for an entry without the key
ExtractRaises(extensions_dict) ==
    \E i \in DOMAIN extensions_dict.extensions :
        extensions_dict.extensions[i].typeName = NoKey

\* str(properties[0]["enabled"]) if len(properties) > 0, else the flag stays as it is
EnabledOf(properties, flag) ==
    IF Len(properties) > 0 THEN Str(properties[1].enabled) ELSE flag
EnabledRaises(properties) == Len(properties) > 0 /\ properties[1].enabled = NoKey

\* What a pass of the report loop raises on before it builds the line: a key that
\* ReportObject or the branch of the report's type reads and the report lacks.
ReportRaises(report) ==
    \/ ~HasReportKeys(report)
    \/ /\ report.type = "MapServer"
       /\ \/ report.properties.isCached = NoKey
          \/ /\ Len(report.extensions) > 0
             /\ \/ ExtractRaises(report)
                \/ \E n \in {"FeatureServer", "KmlServer", "WMSServer", "WFSServer"} :
                      EnabledRaises(extract_extension_properties(report, n))
    \/ /\ report.type = "ImageServer"
       /\ \/ ExtractRaises(report)
          \/ EnabledRaises(extract_extension_properties(report, "WMSServer"))

ReportObject(report, folder_name, machine_name) ==
    [folder |-> RemoveSlashes(folder_name),
     type |-> report.type,
     service_name |-> report.serviceName,
     rest_service_url_machine |->
        [machine |-> machine_name, folder |-> RemoveSlashes(folder_name),
         service_name |-> report.serviceName, type |-> report.type],
     rest_service_url_geodata |->
        <<GEODATA_ROOT, RemoveSlashes(folder_name), report.serviceName, report.type>>,
     real_time_status |-> report.status.realTimeState,
     cached |-> "NA", feature_service |-> "NA", kml |-> "NA", wms |-> "NA", wfs |-> "NA",
     layers |-> <<>>,
     extensions |-> report.extensions]

\* lines 353-376: the cache flag and the four extension flags of a map service
MapServerFlags(report, report_object) ==
    LET cached == [report_object EXCEPT !.cached = report.properties.isCached]
    IN IF Len(report_object.extensions) > 0
       THEN [cached EXCEPT
               !.feature_service =
                   EnabledOf(extract_extension_properties(report, "FeatureServer"), @),
               !.kml = EnabledOf(extract_extension_properties(report, "KmlServer"), @),
               !.wms = EnabledOf(extract_extension_properties(report, "WMSServer"), @),
               !.wfs = EnabledOf(extract_extension_properties(report, "WFSServer"), @)]
       ELSE cached

\* lines 400-402: the wms flag of an image service
ImageServerFlags(report, report_object) ==
    [report_object EXCEPT
       !.wms = EnabledOf(extract_extension_properties(report, "WMSServer"), @)]

create_base_dictionary(report_object) ==
    [ServiceName |-> report_object.service_name,
     Server |-> GEODATA_ALIAS,
     Folder |-> report_object.folder,
     URL |-> report_object.rest_service_url_geodata,
     Type |-> report_object.type,
     Status |-> report_object.real_time_status,
     Cached |-> report_object.cached,
     FeatureService |-> report_object.feature_service,
     kml |-> report_object.kml,
     wms |-> report_object.wms,
     wfs |-> report_object.wfs]

create_json_string(data) == <<data>>
create_json_string_mapserver(report_object, data) ==
    <<data @@ [layers |-> report_object.layers]>>

\* Mutant of NeedsLayersRequest: the real-time state is not looked at.
NeedsLayersRequest_AnyState(report_object) == report_object.type = "MapServer"

\* The layers request is made for a started map service only.
NeedsLayersRequest(report_object) ==
    report_object.type = "MapServer" /\ report_object.real_time_status = "STARTED"

\* The for loop over layers inside try/except: the text gathered when the loop ends
\* or when an element without id or name raises.
RECURSIVE LayersLoop(_, _, _)
LayersLoop(layers, layers_string, layer_iteration_count) ==
    IF layers = <<>> THEN layers_string
    ELSE LET layer == Head(layers)
             separated == IF layer_iteration_count = 0 THEN layers_string
                          ELSE Append(layers_string, Sym(","))
         IN IF layer.name = NoKey THEN separated
            ELSE LayersLoop(Tail(layers),
                            Append(separated, [id |-> ToString(layer.id), name |-> layer.name]),
                            layer_iteration_count + 1)

\* layers_string for a map service: "[" ... "]"; payload is None when no request was made
LayersString(requested, payload) ==
    LET body == IF requested /\ payload.iterable
                THEN LayersLoop(payload.items, <<Sym("[")>>, 0)
                ELSE <<Sym("[")>>
    IN Append(body, Sym("]"))

\* Mutant of BuildLine: the ImageServer branch is missing.
BuildLine_NoImageServer(report, report_object, layers_string) ==
    IF report_object.type \in GROUPED_TYPES_LIST
    THEN create_json_string(create_base_dictionary(report_object))
    ELSE IF report_object.type = "MapServer"
    THEN LET flagged == MapServerFlags(report, report_object)
         IN create_json_string_mapserver([flagged EXCEPT !.layers = layers_string],
                                         create_base_dictionary(flagged))
    ELSE <<>>

\* Mutant of BuildLine: a report of any other type is written as a grouped one.
BuildLine_WritesEveryType(report, report_object, layers_string) ==
    IF report_object.type = "MapServer"
    THEN LET flagged == MapServerFlags(report, report_object)
         IN create_json_string_mapserver([flagged EXCEPT !.layers = layers_string],
                                         create_base_dictionary(flagged))
    ELSE IF report.type = "ImageServer"
    THEN create_json_string(create_base_dictionary(ImageServerFlags(report, report_object)))
    ELSE create_json_string(create_base_dictionary(report_object))

\* line for one report, given the layers text of a map service
BuildLine(report, report_object, layers_string) ==
    IF report_object.type \in GROUPED_TYPES_LIST
    THEN create_json_string(create_base_dictionary(report_object))
    ELSE IF report_object.type = "MapServer"
    THEN LET flagged == MapServerFlags(report, report_object)
         IN create_json_string_mapserver([flagged EXCEPT !.layers = layers_string],
                                         create_base_dictionary(flagged))
    ELSE IF report.type = "ImageServer"
    THEN create_json_string(create_base_dictionary(ImageServerFlags(report, report_object)))
    ELSE <<>>

\* Mutant of WithComma: the count of records written is not looked at.
WithComma_EveryLine(count, built) ==
    IF built = <<>> THEN built ELSE <<Sym(",")>> \o built

\* "Insert a comma before all lines except for the first service report or where the
\* line is empty."
WithComma(count, built) ==
    IF count = 0 \/ built = <<>> THEN built ELSE <<Sym(",")>> \o built

\* The file keeps, for a record, the fields that identify it; line keeps the full text
\* of the line written last.
FileEntry(entry) ==
    IF IsRecord(entry) THEN [ServiceName |-> entry.ServiceName, Folder |-> entry.Folder]
    ELSE entry
write(handle, text) == handle \o [i \in DOMAIN text |-> FileEntry(text[i])]

\* "Insert a comma after all of a folders services have been processed
\*  ***Except after the last folder of the entire output."
FolderComma(count, n_folders, n_written) == count < n_folders /\ n_written > 0

Abort == pc' = "aborted"

SelectMachine ==
    /\ script = "archive" /\ pc = "start"
    /\ \E spot \in create_random_int(Cardinality(DOMAIN SERVER_MACHINE_NAMES)) :
          machine' = SERVER_MACHINE_NAMES[spot]
    /\ pc' = "get_token"
    /\ UNCHANGED <<script, token, folders, machine_object, file, folder_iteration_count,
                   folder, reports, report_index, report_iteration_count, reports_received, line, log,
                   payload_shape>>
    /\ UNCHANGED <<tests_vars, service_results_file_handler>>

GetToken ==
    /\ script = "archive" /\ pc = "get_token"
    /\ \E response \in TokenResponses(machine) :
          LET token_params == create_params_for_request("getToken")
              got == get_value_from_response(response)
          IN /\ log' = Append(log, Request(machine, SERVER_URL_GENERATE_TOKEN, "", "",
                                           token_params, response))
             /\ payload_shape' = UninspectedShape(response)
             /\ IF got.action = "exit"
                THEN Abort /\ token' = token
                ELSE token' = got.value /\ pc' = "get_folders"
    /\ UNCHANGED <<script, machine, folders>>
    /\ UNCHANGED archive_vars
    /\ UNCHANGED tests_vars

GetFolders ==
    /\ script = "archive" /\ pc = "get_folders"
    /\ \E response \in FoldersResponses(FolderNames) :
          LET request_params_result == create_params_for_request(token)
              got == get_value_from_response(response)
          IN /\ log' = Append(log, Request(machine, SERVER_URL_ADMIN_SERVICES, "", "",
                                           request_params_result, response))
             /\ payload_shape' = FoldersShape(response)
             /\ IF got.action = "exit" \/ ~got.value.iterable
                THEN /\ Abort
                     /\ UNCHANGED <<folders, machine_object, service_results_file_handler,
                                    file>>
                ELSE /\ folders' = BuildFolders(got.value.items)
                     /\ machine_object' = [machine_name |-> machine, token |-> token,
                                           folders_list |-> BuildFolders(got.value.items)]
                     /\ service_results_file_handler' = "open"
                     /\ file' = write(<<>>, <<Sym("[")>>)
                     /\ pc' = "folder_loop"
    /\ folder_iteration_count' = 0
    /\ UNCHANGED <<script, machine, token, folder, reports, report_index,
                   report_iteration_count, reports_received, line>>
    /\ UNCHANGED tests_vars

SkipRootFolder ==
    /\ script = "archive" /\ pc = "folder_loop"
    /\ folder_iteration_count < Len(machine_object.folders_list)
    /\ IsRootFolder(machine_object.folders_list[folder_iteration_count + 1])
    /\ folder_iteration_count' = folder_iteration_count + 1
    /\ folder' = machine_object.folders_list[folder_iteration_count + 1]
    /\ UNCHANGED <<script, pc, machine, token, folders, machine_object, file, reports,
                   report_index, report_iteration_count, reports_received, line, log,
                   payload_shape>>
    /\ UNCHANGED <<tests_vars, service_results_file_handler>>

GetReports ==
    /\ script = "archive" /\ pc = "folder_loop"
    /\ folder_iteration_count < Len(machine_object.folders_list)
    /\ ~IsRootFolder(machine_object.folders_list[folder_iteration_count + 1])
    /\ folder_iteration_count' = folder_iteration_count + 1
    /\ folder' = machine_object.folders_list[folder_iteration_count + 1] \o "/"
    /\ \E response \in ReportsResponses(MaxReports - reports_received) :
          LET report_request_params == create_params_for_request(machine_object.token)
              got == get_value_from_response(response)
          IN /\ log' = Append(log, Request(machine_object.machine_name, "report", folder', "",
                                           report_request_params, response))
             /\ payload_shape' = ReportsShape(response)
             /\ IF got.action = "exit" \/ ~got.value.iterable
                THEN Abort /\ UNCHANGED <<reports, reports_received>>
                ELSE /\ reports' = got.value.items
                     /\ reports_received' = reports_received + Len(got.value.items)
                     /\ pc' = "report_loop"
    /\ report_index' = 0
    /\ report_iteration_count' = 0
    /\ UNCHANGED <<script, machine, token, folders, machine_object, file, line>>
    /\ UNCHANGED <<tests_vars, service_results_file_handler>>

\* lines 409-420: prefix the comma, write the line unless it is empty
WriteLine(built) ==
    LET text == WithComma(report_iteration_count, built)
    IN /\ line' = text
       /\ IF text = <<>>
          THEN UNCHANGED <<file, report_iteration_count>>
          ELSE /\ file' = write(file, text)
               /\ report_iteration_count' = report_iteration_count + 1

\* one pass of "for report in reports" that posts no request
ProcessReport ==
    /\ script = "archive" /\ pc = "report_loop"
    /\ report_index < Len(reports)
    /\ LET report == reports[report_index + 1]
           report_object == ReportObject(report, folder, machine)
       IN IF ReportRaises(report)
          THEN Abort /\ UNCHANGED <<file, report_iteration_count, line, report_index>>
          ELSE /\ ~NeedsLayersRequest(report_object)
               /\ WriteLine(BuildLine(report, report_object, LayersString(FALSE, NotIterable)))
               /\ report_index' = report_index + 1
               /\ pc' = pc
    /\ UNCHANGED <<script, machine, token, folders, machine_object, folder_iteration_count,
                   folder, reports, reports_received, log, payload_shape>>
    /\ UNCHANGED <<tests_vars, service_results_file_handler>>

\* one pass of "for report in reports" for a started map service: the layers request
ProcessWithLayers ==
    /\ script = "archive" /\ pc = "report_loop"
    /\ report_index < Len(reports)
    /\ ~ReportRaises(reports[report_index + 1])
    /\ LET report == reports[report_index + 1]
           report_object == ReportObject(report, folder, machine)
       IN /\ NeedsLayersRequest(report_object)
          /\ \E response \in LayersResponses :
                LET layer_request_params == create_params_for_request(None)
                    got == get_value_from_response(response)
                    url == report_object.rest_service_url_machine
                IN /\ log' = Append(log, Request(url.machine, "layers", url.folder,
                                                 url.service_name, layer_request_params,
                                                 response))
                   /\ payload_shape' = LayersShape(response)
                   /\ IF got.action = "exit"
                      THEN Abort /\ UNCHANGED <<file, report_iteration_count, line, report_index>>
                      ELSE /\ WriteLine(BuildLine(report, report_object,
                                                  LayersString(TRUE, got.value)))
                           /\ report_index' = report_index + 1
                           /\ pc' = pc
    /\ UNCHANGED <<script, machine, token, folders, machine_object, folder_iteration_count,
                   folder, reports, reports_received>>
    /\ UNCHANGED <<tests_vars, service_results_file_handler>>

\* lines 422-428: the comma after a folder. reports, the two counters of the report
\* loop and line are not read again before lines 339-344 assign them anew; they are
\* cleared here.
EndFolder ==
    /\ script = "archive" /\ pc = "report_loop"
    /\ report_index = Len(reports)
    /\ IF FolderComma(folder_iteration_count, Len(folders), report_iteration_count)
       THEN file' = write(file, <<Sym(",")>>)
       ELSE file' = file
    /\ pc' = "folder_loop"
    /\ reports' = <<>>
    /\ report_index' = 0
    /\ report_iteration_count' = 0
    /\ line' = <<>>
    /\ UNCHANGED <<script, machine, token, folders, machine_object, folder_iteration_count,
                   folder, reports_received, log, payload_shape>>
    /\ UNCHANGED <<tests_vars, service_results_file_handler>>

\* lines 430-431: the closing bracket, close()
Finish ==
    /\ script = "archive" /\ pc = "folder_loop"
    /\ folder_iteration_count = Len(machine_object.folders_list)
    /\ file' = write(file, <<Sym("]")>>)
    /\ service_results_file_handler' = "closed"
    /\ pc' = "done"
    /\ UNCHANGED <<script, machine, token, folders, machine_object, folder_iteration_count,
                   folder, reports, report_index, report_iteration_count, reports_received, line, log,
                   payload_shape>>
    /\ UNCHANGED tests_vars

ArchiveNext ==
    \/ SelectMachine
    \/ GetToken
    \/ GetFolders
    \/ SkipRootFolder
    \/ GetReports
    \/ ProcessReport
    \/ ProcessWithLayers
    \/ EndFolder
    \/ Finish

\* ---------------------------------------- MachineTests_TokenMismatchIssue.py
\* Mutants of MT_get_value_from_response: the loop is left on a missing key, by
\* exit() as in the archive script, or by returning.
MT_get_value_from_response_Exits(response) ==
    IF response.outcome = "ok"
    THEN [action |-> "return", value |-> response.value]
    ELSE [action |-> "exit", value |-> response.value]
MT_get_value_from_response_KeyErrorReturns(response) ==
    IF response.outcome \in {"ok", "keyerror"}
    THEN [action |-> "return", value |-> response.value]
    ELSE IF response.outcome = "typeerror"
    THEN [action |-> "continue", value |-> response.value]
    ELSE [action |-> "exit", value |-> response.value]

\* get_value_from_response of the diagnostic script: inside "while True", a missing
\* key or a value that cannot be indexed posts the request again.
MT_get_value_from_response(response) ==
    IF response.outcome = "ok"
    THEN [action |-> "return", value |-> response.value]
    ELSE IF response.outcome \in {"keyerror", "typeerror"}
    THEN [action |-> "continue", value |-> response.value]
    ELSE [action |-> "exit", value |-> response.value]

\* The log holds one entry per distinct request; a re-send replaces the entry's outcome.
Post(requests, posted_before, request) ==
    IF posted_before = 0 THEN Append(requests, request)
    ELSE [requests EXCEPT ![Len(requests)] = request]

\* What one pass of the while loop does to the position of main()
Loop(got, on_return) ==
    /\ got.action = "continue" => attempts < MaxRetries
    /\ IF got.action = "return" THEN attempts' = 0 /\ on_return
       ELSE attempts' = attempts + 1

ReportPayloadsUnread == {Array(<<>>), NotIterable}

MT_GetToken ==
    /\ script = "machine_tests" /\ pc = "get_token"
    /\ LET name == MT_SERVER_MACHINE_NAMES[Len(machine_objects_list) + 1]
       IN /\ machine' = name
          /\ \E response \in TokenResponses(name) :
                LET token_params == create_params_for_request("getToken")
                    got == MT_get_value_from_response(response)
                IN /\ log' = Post(log, attempts,
                                  Request(name, SERVER_URL_GENERATE_TOKEN, "", "", token_params,
                                          response))
                   /\ payload_shape' = UninspectedShape(response)
                   /\ Loop(got, TRUE)
                   /\ token' = IF got.action = "return" THEN got.value ELSE token
                   /\ pc' = CASE got.action = "return" -> "get_folders"
                               [] got.action = "continue" -> pc
                               [] OTHER -> "aborted"
    /\ UNCHANGED <<script, folders, machine_objects_list, outer, inner, folder_index>>
    /\ UNCHANGED archive_vars

MT_GetFolders ==
    /\ script = "machine_tests" /\ pc = "get_folders"
    /\ \E response \in FoldersResponses(TestFolderNames) :
          LET request_params_result == create_params_for_request(token)
              got == MT_get_value_from_response(response)
              built == BuildFolders(got.value.items)
              collected == Append(machine_objects_list,
                                  [machine_name |-> machine, token |-> token,
                                   folders_list |-> built])
          IN /\ log' = Post(log, attempts,
                            Request(machine, SERVER_URL_ADMIN_SERVICES, "", "",
                                    request_params_result, response))
             /\ payload_shape' = FoldersShape(response)
             /\ Loop(got, TRUE)
             /\ IF got.action = "return" /\ got.value.iterable
                THEN /\ folders' = built
                     /\ machine_objects_list' = collected
                     /\ pc' = IF Len(collected) = Len(MT_SERVER_MACHINE_NAMES)
                              THEN "cross" ELSE "get_token"
                ELSE /\ UNCHANGED <<folders, machine_objects_list>>
                     /\ pc' = IF got.action = "continue" THEN pc ELSE "aborted"
    /\ outer' = 1
    /\ inner' = 1
    /\ folder_index' = 1
    /\ UNCHANGED <<script, machine, token>>
    /\ UNCHANGED archive_vars

\* one pass of "for folder in inner_machine_object.folders_list"
MT_GetReports ==
    /\ script = "machine_tests" /\ pc = "cross"
    /\ LET outer_machine_object == machine_objects_list[outer]
           inner_machine_object == machine_objects_list[inner]
           focus_token == outer_machine_object.token
           name == inner_machine_object.folders_list[folder_index]
           path == IF name # "" THEN name \o "/" ELSE name
           last_folder == folder_index = Len(inner_machine_object.folders_list)
           last_inner == inner = Len(machine_objects_list)
           last_outer == outer = Len(machine_objects_list)
       IN \E response \in Responses(ReportPayloadsUnread, NotIterable) :
             LET report_request_params == create_params_for_request(focus_token)
                 got == MT_get_value_from_response(response)
             IN /\ log' = Post(log, attempts,
                               Request(inner_machine_object.machine_name, "report", path, "",
                                       report_request_params, response))
                /\ payload_shape' = UninspectedShape(response)
                /\ Loop(got, TRUE)
                /\ IF got.action = "return"
                   THEN /\ folder_index' = IF last_folder THEN 1 ELSE folder_index + 1
                        /\ inner' = IF ~last_folder THEN inner
                                    ELSE IF last_inner THEN 1 ELSE inner + 1
                        /\ outer' = IF last_folder /\ last_inner /\ ~last_outer
                                    THEN outer + 1 ELSE outer
                        /\ pc' = IF last_folder /\ last_inner /\ last_outer THEN "done" ELSE pc
                   ELSE /\ UNCHANGED <<outer, inner, folder_index>>
                        /\ pc' = IF got.action = "continue" THEN pc ELSE "aborted"
    /\ UNCHANGED <<script, machine, token, folders, machine_objects_list>>
    /\ UNCHANGED archive_vars

TestsNext ==
    \/ MT_GetToken
    \/ MT_GetFolders
    \/ MT_GetReports

Next == ArchiveNext \/ TestsNext

Spec == Init /\ [][Next]_vars

\* The report loop on one report of any shape: main() after the report request of the
\* only folder "A" returned an array of one report.
FlagsInit ==
    /\ script = "archive"
    /\ pc = "report_loop"
    /\ machine = SERVER_MACHINE_NAMES[0]
    /\ token = MintedToken(machine)
    /\ folders = BuildFolders(<<"A">>)
    /\ machine_object = [machine_name |-> machine, token |-> token, folders_list |-> folders]
    /\ service_results_file_handler = "open"
    /\ file = write(<<>>, <<Sym("[")>>)
    /\ folder_iteration_count = 2
    /\ folder = "A/"
    /\ reports \in {<<Report(kind, 1)>> : kind \in FlagReportKinds}
    /\ report_index = 0
    /\ report_iteration_count = 0
    /\ reports_received = 1
    /\ line = <<>>
    /\ log = <<Request(machine, SERVER_URL_GENERATE_TOKEN, "", "",
                       create_params_for_request("getToken"), [outcome |-> "ok"]),
               Request(machine, SERVER_URL_ADMIN_SERVICES, "", "",
                       create_params_for_request(token), [outcome |-> "ok"]),
               Request(machine, "report", folder, "",
                       create_params_for_request(token), [outcome |-> "ok"])>>
    /\ payload_shape = "expected"
    /\ machine_objects_list = <<>>
    /\ outer = 0
    /\ inner = 0
    /\ folder_index = 0
    /\ attempts = 0

FlagsNext == ProcessReport \/ ProcessWithLayers \/ EndFolder \/ Finish

FlagsSpec == FlagsInit /\ [][FlagsNext]_vars

\* The folder list built from a "folders" array of any content: either script right
\* after its first folders request returned, folders holding the array as returned.
FoldersInit ==
    /\ script \in {"archive", "machine_tests"}
    /\ pc = "build_folders"
    /\ machine = IF script = "archive" THEN SERVER_MACHINE_NAMES[0]
                 ELSE MT_SERVER_MACHINE_NAMES[1]
    /\ token = MintedToken(machine)
    /\ folders \in SeqsUpTo(FolderNames, MaxFolders)
    /\ machine_object = [machine_name |-> None, token |-> None, folders_list |-> <<>>]
    /\ service_results_file_handler = None
    /\ file = <<>>
    /\ folder_iteration_count = 0
    /\ folder = None
    /\ reports = <<>>
    /\ report_index = 0
    /\ report_iteration_count = 0
    /\ reports_received = 0
    /\ line = <<>>
    /\ log = <<Request(machine, SERVER_URL_GENERATE_TOKEN, "", "",
                       create_params_for_request("getToken"), [outcome |-> "ok"]),
               Request(machine, SERVER_URL_ADMIN_SERVICES, "", "",
                       create_params_for_request(token), [outcome |-> "ok"])>>
    /\ payload_shape = "expected"
    /\ machine_objects_list = <<>>
    /\ outer = 0
    /\ inner = 0
    /\ folder_index = 0
    /\ attempts = 0

\* archive, lines 306-322: the list, the machine object, the opened file
BuildFolderList ==
    /\ script = "archive" /\ pc = "build_folders"
    /\ folders' = BuildFolders(folders)
    /\ machine_object' = [machine_name |-> machine, token |-> token,
                          folders_list |-> BuildFolders(folders)]
    /\ service_results_file_handler' = "open"
    /\ file' = write(<<>>, <<Sym("[")>>)
    /\ pc' = "folder_loop"
    /\ UNCHANGED <<script, machine, token, folder_iteration_count, folder, reports,
                   report_index, report_iteration_count, reports_received, line, log,
                   payload_shape>>
    /\ UNCHANGED tests_vars

\* diagnostic script, lines 135-143: the list and the machine object of the first machine
MT_BuildFolderList ==
    /\ script = "machine_tests" /\ pc = "build_folders"
    /\ folders' = BuildFolders(folders)
    /\ machine_objects_list' = Append(machine_objects_list,
                                      [machine_name |-> machine, token |-> token,
                                       folders_list |-> BuildFolders(folders)])
    /\ pc' = "get_token"
    /\ UNCHANGED <<script, machine, token, log, payload_shape, outer, inner, folder_index,
                   attempts>>
    /\ UNCHANGED archive_vars

FoldersNext ==
    \/ BuildFolderList
    \/ SkipRootFolder
    \/ GetReports
    \/ ProcessReport
    \/ ProcessWithLayers
    \/ EndFolder
    \/ Finish
    \/ MT_BuildFolderList
    \/ MT_GetToken
    \/ MT_GetFolders
    \/ MT_GetReports

FoldersSpec == FoldersInit /\ [][FoldersNext]_vars

\* ----------------------------------------------------------------- claims
Archive == script = "archive"
MachineTests == script = "machine_tests"
Last(s) == s[Len(s)]
Records(text) == SelectSeq(text, IsRecord)
\* the types main() writes a record for
Recognised(type) == type \in GROUPED_TYPES_LIST \cup {"MapServer", "ImageServer"}
ServiceIndex(name) == CHOOSE k \in 1..MaxReports : ServiceName(k) = name
FolderPosition(name) ==
    CHOOSE k \in DOMAIN machine_object.folders_list : machine_object.folders_list[k] = name

\* C1: when the run completes normally, the entry written immediately before the
\* closing "]" is never a comma.
C1_NoCommaBeforeClosingBracket ==
    (Archive /\ pc = "done") => file[Len(file) - 1] # Sym(",")

\* C2: in what is written after "[", a comma always follows a record (so none stands
\* before the first record and no two stand in a row), and a record always follows
\* the opening "[" or a comma (so no comma is missing between two records).
C2_OneCommaBetweenRecords ==
    Archive =>
        \A i \in DOMAIN file :
            /\ file[i] = Sym("[") <=> i = 1
            /\ file[i] = Sym(",") => IsRecord(file[i - 1])
            /\ IsRecord(file[i]) => file[i - 1] \in {Sym("["), Sym(",")}

\* C2 witness: a finished run over folders A, B, C in which a record of A and a record
\* of C are separated by one comma, B having written nothing, and in which two records
\* of one folder are separated by one comma.
C2_Witness ==
    /\ Archive /\ pc = "done"
    /\ machine_object.folders_list = <<"", "A", "B", "C">>
    /\ \E i \in DOMAIN file :
          /\ i + 4 \in DOMAIN file
          /\ IsRecord(file[i]) /\ file[i].Folder = "A"
          /\ file[i + 1] = Sym(",")
          /\ IsRecord(file[i + 2]) /\ file[i + 2].Folder = "C"
          /\ file[i + 3] = Sym(",")
          /\ IsRecord(file[i + 4]) /\ file[i + 4].Folder = "C"

\* C3: the folder list iterated is sorted, and the records in the file are in strictly
\* increasing order of (position of the folder in that list, position of the report in
\* its array): no record of a later folder precedes one of an earlier folder, and no
\* record is written twice.
C3_RecordsInEnumerationOrder ==
    Archive =>
        /\ \A i, j \in DOMAIN machine_object.folders_list :
              i < j => StringOrder(machine_object.folders_list[i])
                          <= StringOrder(machine_object.folders_list[j])
        /\ \A i, j \in DOMAIN file :
              (i < j /\ IsRecord(file[i]) /\ IsRecord(file[j])) =>
                  \/ FolderPosition(file[i].Folder) < FolderPosition(file[j].Folder)
                  \/ /\ file[i].Folder = file[j].Folder
                     /\ ServiceIndex(file[i].ServiceName) < ServiceIndex(file[j].ServiceName)

\* C3 witness: a finished run whose file holds two records of folder A followed by a
\* record of folder B.
C3_Witness ==
    /\ Archive /\ pc = "done"
    /\ Len(Records(file)) = 3
    /\ Records(file)[1].Folder = "A" /\ Records(file)[2].Folder = "A"
    /\ Records(file)[3].Folder = "B"

\* C4: a layers request is in the log only for a report of type MapServer whose
\* realTimeState is STARTED; the line of a MapServer that is not STARTED has the layers
\* text "[]"; the line of any other type has no layers key.
C4_LayersOnlyForStartedMapServer ==
    (Archive /\ pc \in {"report_loop", "aborted"}) =>
        /\ \A j \in DOMAIN log :
              (log[j].endpoint = "layers" /\ log[j].folder = RemoveSlashes(folder)
                    /\ reports # <<>>) =>
                  LET report == reports[ServiceIndex(log[j].service)]
                  IN report.type = "MapServer" /\ report.status.realTimeState = "STARTED"
        /\ line # <<>> =>
              LET record == Last(line)
              IN /\ (record.Type = "MapServer" /\ record.Status # "STARTED") =>
                        /\ record.layers = <<Sym("["), Sym("]")>>
                        /\ ~\E j \in DOMAIN log :
                              /\ log[j].endpoint = "layers"
                              /\ log[j].folder = record.Folder
                              /\ log[j].service = record.ServiceName
                 /\ record.Type # "MapServer" => "layers" \notin DOMAIN record

\* C4 witness: in one folder a started MapServer got its layers request and then the
\* line of a stopped MapServer was written with the layers text "[]".
C4_Witness ==
    /\ Archive /\ pc = "report_loop"
    /\ line # <<>>
    /\ Last(line).Type = "MapServer" /\ Last(line).Status = "STOPPED"
    /\ Last(line).layers = <<Sym("["), Sym("]")>>
    /\ \E j \in DOMAIN log : log[j].endpoint = "layers" /\ log[j].folder = RemoveSlashes(folder)

\* The last response was a failure of get_value_from_response, or its payload has not
\* the shape main() expects.
UnexpectedResponse ==
    /\ log # <<>>
    /\ Last(log).outcome # "ok" \/ payload_shape \in {"not_iterable", "bad_element"}
\* The last response was a failure of get_value_from_response, or a folders or reports
\* payload that cannot be iterated.
AbortingResponse ==
    /\ log # <<>>
    /\ \/ Last(log).outcome # "ok"
       \/ payload_shape = "not_iterable" /\ Last(log).endpoint # "layers"
\* The report loop stands at an element that lacks a key ReportObject reads.
AtMalformedReport ==
    /\ pc = "report_loop" /\ report_index < Len(reports)
    /\ ~HasReportKeys(reports[report_index + 1])

\* C5 (as claimed): after any unexpected response no further request is sent and
\* nothing more is written to the file.
C5_AnyUnexpectedResponseAborts ==
    [][(Archive /\ UnexpectedResponse) => (log' = log /\ file' = file)]_vars

\* C5 (amended): a failed request, and a folders or reports payload that cannot be
\* iterated, abort at once: the run is aborted and neither the log nor the file changes
\* afterwards; a reports array with a malformed element aborts when the loop reaches
\* that element; a layers response with the key, whatever the shape of its payload,
\* does not abort: the line is written and the report loop goes on.
C5_FailuresAbortExceptLayersShape ==
    [][Archive =>
          /\ AbortingResponse' => pc' = "aborted"
          /\ (AbortingResponse \/ pc = "aborted") => (log' = log /\ file' = file)
          /\ AtMalformedReport => (pc' = "aborted" /\ log' = log /\ file' = file)
          /\ (log' # log /\ Last(log').endpoint = "layers" /\ Last(log').outcome = "ok") =>
                (pc' = "report_loop" /\ Len(file') > Len(file))]_vars

\* C5 witness: a layers payload with a malformed element did not abort the run (its
\* line was written), and the run then aborted at a malformed report.
C5_Witness ==
    /\ Archive /\ pc = "aborted"
    /\ Last(log).endpoint = "layers" /\ Last(log).outcome = "ok"
    /\ payload_shape = "bad_element"
    /\ line # <<>> /\ "layers" \in DOMAIN Last(line)
    /\ report_index < Len(reports) /\ ~HasReportKeys(reports[report_index + 1])

NoRepeatInLog ==
    \A i, j \in DOMAIN log :
        i < j => [log[i] EXCEPT !.outcome = "ok"] # [log[j] EXCEPT !.outcome = "ok"]

\* C6 (as claimed): neither script posts one request more than once.
C6_NoRequestPostedTwice == NoRepeatInLog /\ attempts <= 1

\* C6 (amended): the archive script posts no request twice and is aborted by a KeyError
\* or TypeError; the diagnostic script posts the current request again after a KeyError
\* or TypeError and for no other reason, is never aborted by one of them, and is aborted
\* only by a failed post, an html or undecodable response or a folders payload that
\* cannot be iterated.
C6_OnlyDiagnosticScriptRetries ==
    /\ Archive =>
          /\ attempts = 0
          /\ NoRepeatInLog
          /\ (log # <<>> /\ Last(log).outcome \in {"keyerror", "typeerror"}) => pc = "aborted"
    /\ MachineTests =>
          /\ (attempts > 0 /\ pc # "aborted") => Last(log).outcome \in {"keyerror", "typeerror"}
          /\ (log # <<>> /\ Last(log).outcome \in {"keyerror", "typeerror"}) =>
                (pc \notin {"aborted", "done"} /\ attempts > 0)
          /\ pc = "aborted" =>
                \/ Last(log).outcome \in {"transport", "html", "decode"}
                \/ payload_shape = "not_iterable"

\* C6 witness: the diagnostic script has posted one cross-request as often as the model
\* follows, each time answered without the "reports" key.
C6_Witness ==
    /\ MachineTests /\ pc = "cross"
    /\ attempts = MaxRetries /\ attempts > 1
    /\ Last(log).endpoint = "report" /\ Last(log).outcome = "keyerror"

\* C7: no cross-request is posted before a token and a folder list were obtained from
\* each of the four machines; at the end of the script every request has returned its
\* key, and for every pair (outer, inner) and every folder of inner's list, the root
\* entry included, the log holds a report request to inner with the token of outer.
C7_EveryTokenAgainstEveryMachine ==
    MachineTests =>
        /\ \A j \in DOMAIN log :
              log[j].endpoint = "report" =>
                  /\ Len(machine_objects_list) = Len(MT_SERVER_MACHINE_NAMES)
                  /\ j > 2 * Len(MT_SERVER_MACHINE_NAMES)
                  /\ \A m \in DOMAIN MT_SERVER_MACHINE_NAMES :
                        /\ log[2 * m - 1].endpoint = SERVER_URL_GENERATE_TOKEN
                        /\ log[2 * m - 1].machine = MT_SERVER_MACHINE_NAMES[m]
                        /\ log[2 * m - 1].outcome = "ok"
                        /\ log[2 * m].endpoint = SERVER_URL_ADMIN_SERVICES
                        /\ log[2 * m].machine = MT_SERVER_MACHINE_NAMES[m]
                        /\ log[2 * m].outcome = "ok"
        /\ pc = "done" =>
              /\ \A j \in DOMAIN log : log[j].outcome = "ok"
              /\ \A i \in DOMAIN machine_objects_list :
                    "" \in Elements(machine_objects_list[i].folders_list)
              /\ \A o, i \in DOMAIN MT_SERVER_MACHINE_NAMES :
                    \A k \in DOMAIN machine_objects_list[i].folders_list :
                        \E j \in DOMAIN log :
                            /\ log[j].endpoint = "report"
                            /\ log[j].machine = MT_SERVER_MACHINE_NAMES[i]
                            /\ RemoveSlashes(log[j].folder)
                                  = machine_objects_list[i].folders_list[k]
                            /\ log[j].params.token = MintedToken(MT_SERVER_MACHINE_NAMES[o])

\* C7 witness: the diagnostic script reached its end with machines whose folder lists
\* differ.
C7_Witness ==
    /\ MachineTests /\ pc = "done"
    /\ machine_objects_list[1].folders_list = <<"", "A">>
    /\ machine_objects_list[2].folders_list = <<"">>

\* C8: the token request is the first request and the only one of its kind, the folders
\* request the second and the only one of its kind; a request is posted only after the
\* one before it returned its key; the last report request before a layers request is
\* the one of the service's folder.
C8_RequestOrder ==
    Archive =>
        \A j \in DOMAIN log :
            /\ log[j].endpoint = SERVER_URL_GENERATE_TOKEN <=> j = 1
            /\ log[j].endpoint = SERVER_URL_ADMIN_SERVICES <=> j = 2
            /\ j > 1 => log[j - 1].outcome = "ok"
            /\ log[j].endpoint = "layers" =>
                  \E r \in 1..(j - 1) :
                      /\ log[r].endpoint = "report"
                      /\ RemoveSlashes(log[r].folder) = log[j].folder
                      /\ \A q \in (r + 1)..(j - 1) : log[q].endpoint = "layers"

\* C8 witness: a finished run with the requests token, folders, report of A, layers of a
\* service of A, report of B.
C8_Witness ==
    /\ Archive /\ pc = "done"
    /\ Len(log) >= 5
    /\ log[3].endpoint = "report" /\ log[3].folder = "A/"
    /\ log[4].endpoint = "layers" /\ log[4].folder = "A"
    /\ log[5].endpoint = "report" /\ log[5].folder = "B/"

ReportRequests(name) ==
    Cardinality({j \in DOMAIN log :
                    log[j].endpoint = "report" /\ RemoveSlashes(log[j].folder) = name})

\* C9 (as claimed): in a run that completes normally exactly one report request is
\* posted for each folder of machine_object.folders_list.
C9_OneReportRequestPerFolder ==
    (Archive /\ pc = "done") =>
        \A k \in DOMAIN machine_object.folders_list :
            ReportRequests(machine_object.folders_list[k]) = 1

\* C9 (amended): in a run that completes normally exactly one report request is posted
\* for each folder of the list other than the root entry "" (and a folder named "/"),
\* and none for the root entry.
C9_OneReportRequestPerNonRootFolder ==
    (Archive /\ pc = "done") =>
        \A k \in DOMAIN machine_object.folders_list :
            ReportRequests(machine_object.folders_list[k])
                = IF machine_object.folders_list[k] \in {"", "/"} THEN 0 ELSE 1

\* C9 witness: a finished run over the root entry and two folders.
C9_Witness ==
    /\ Archive /\ pc = "done"
    /\ machine_object.folders_list = <<"", "A", "B">>
    /\ ReportRequests("A") = 1 /\ ReportRequests("B") = 1

\* What the file holds of the current folder once the first k reports were processed:
\* the records of the reports of recognised types, separated by commas.
RECURSIVE SeparatedRecords(_, _)
SeparatedRecords(rs, k) ==
    IF k = 0 THEN <<>>
    ELSE LET before == SeparatedRecords(rs, k - 1)
         IN IF ~Recognised(rs[k].type) THEN before
            ELSE (IF before = <<>> THEN <<>> ELSE Append(before, Sym(",")))
                    \o <<[ServiceName |-> rs[k].serviceName, Folder |-> RemoveSlashes(folder)]>>

FileHoldsProcessedReports ==
    (Archive /\ pc \in {"report_loop", "aborted"} /\ file # <<>>) =>
        LET text == SeparatedRecords(reports, report_index)
            start == Len(file) - Len(text)
        IN /\ start >= 1
           /\ SubSeq(file, start + 1, Len(file)) = text
           /\ file[start] \in {Sym("["), Sym(",")}
           /\ \A i \in 1..start :
                 ~(IsRecord(file[i]) /\ file[i].Folder = RemoveSlashes(folder))

\* C10: between any two requests the file holds "[", what was written for the earlier
\* folders, and exactly the records, with their commas, of the reports of the current
\* folder processed so far; what was written is never changed afterwards.
C10_RecordsWrittenEagerly ==
    /\ []FileHoldsProcessedReports
    /\ [][Archive => (Len(file') >= Len(file) /\ SubSeq(file', 1, Len(file)) = file)]_vars

\* C10 witness: the run aborted at the layers request of the second service of folder
\* B; the file holds the record of folder A and the record of the first service of B.
C10_Witness ==
    /\ Archive /\ pc = "aborted"
    /\ Last(log).endpoint = "layers" /\ Last(log).outcome # "ok"
    /\ Last(log).folder = "B" /\ report_index = 1
    /\ Len(Records(file)) = 2
    /\ Records(file)[1].Folder = "A" /\ Records(file)[2].Folder = "B"
    /\ Last(file) = Records(file)[2]

ConfiguredMachines == {SERVER_MACHINE_NAMES[i] : i \in DOMAIN SERVER_MACHINE_NAMES}

RequestsGoToChosenMachine ==
    Archive =>
        /\ pc # "start" => machine \in ConfiguredMachines
        /\ \A j \in DOMAIN log :
              /\ log[j].machine = machine
              /\ log[j].endpoint \in {SERVER_URL_ADMIN_SERVICES, "report"} =>
                    /\ log[1].endpoint = SERVER_URL_GENERATE_TOKEN
                    /\ log[1].machine = machine /\ log[1].outcome = "ok"
                    /\ log[j].params.token = MintedToken(machine)
                    /\ log[j].params.token = token

\* C11: once chosen the machine is one of the four configured names and never changes;
\* every request of the run is addressed to it, and every folders and report request
\* carries the token that the token request of this run obtained from it.
C11_OneMachinePerRun ==
    /\ []RequestsGoToChosenMachine
    /\ [][(Archive /\ pc # "start") => machine' = machine]_vars

\* C11 witness: a finished run on the third machine with a token, a folders, a report
\* and a layers request.
C11_Witness ==
    /\ Archive /\ pc = "done" /\ machine = SERVER_MACHINE_NAMES[2]
    /\ Len(log) >= 4
    /\ log[3].endpoint = "report" /\ log[3].params.token = "token3"
    /\ log[4].endpoint = "layers" /\ log[4].machine = "machine3"

\* the flag the claim gives a record for the extension type name: the string form of
\* "enabled" of the first entry of that type, "NA" when there is none
ClaimedFlag(report, name) ==
    LET matches == {i \in DOMAIN report.extensions : report.extensions[i].typeName = name}
    IN IF matches = {} THEN "NA"
       ELSE LET first == CHOOSE i \in matches : \A j \in matches : i <= j
            IN Str(report.extensions[first].enabled)

\* C12: the record written for the report processed last has, for a map service, the
\* four flags of its extensions and Cached = properties.isCached; for an image service
\* the wms flag and "NA" elsewhere; for a grouped type "NA" in all five.
C12_CapabilityFlags ==
    (Archive /\ pc = "report_loop" /\ report_index >= 1 /\ line # <<>>) =>
        LET report == reports[report_index]
            record == Last(line)
        IN /\ record.ServiceName = report.serviceName
           /\ report.type = "MapServer" =>
                 /\ record.FeatureService = ClaimedFlag(report, "FeatureServer")
                 /\ record.kml = ClaimedFlag(report, "KmlServer")
                 /\ record.wms = ClaimedFlag(report, "WMSServer")
                 /\ record.wfs = ClaimedFlag(report, "WFSServer")
                 /\ record.Cached = report.properties.isCached
           /\ report.type = "ImageServer" =>
                 /\ record.wms = ClaimedFlag(report, "WMSServer")
                 /\ record.Cached = "NA" /\ record.FeatureService = "NA"
                 /\ record.kml = "NA" /\ record.wfs = "NA"
           /\ report.type \in GROUPED_TYPES_LIST =>
                 /\ record.Cached = "NA" /\ record.FeatureService = "NA"
                 /\ record.kml = "NA" /\ record.wms = "NA" /\ record.wfs = "NA"

\* C12 witness: the record of a map service with two WMSServer entries, of which the
\* first, a JSON false, decides, and with a KmlServer entry absent.
C12_Witness ==
    /\ Archive /\ pc = "report_loop" /\ report_index = 1 /\ line # <<>>
    /\ reports[1].type = "MapServer"
    /\ reports[1].extensions
          = <<Extension("WMSServer", "false"), Extension("WMSServer", "\"true\"")>>
    /\ Last(line).wms = "False" /\ Last(line).kml = "NA" /\ Last(line).Cached = "true"

RecordsOfFolder(text, name) ==
    SelectSeq(text, LAMBDA entry : IsRecord(entry) /\ entry.Folder = name)
RecognisedReports(rs) == SelectSeq(rs, LAMBDA report : Recognised(report.type))

\* when the report loop of a folder is through, the file holds as many records of the
\* folder as the folder has reports of recognised types
FolderRecordsMatchReports ==
    (Archive /\ pc = "report_loop" /\ report_index = Len(reports)) =>
        /\ Len(RecordsOfFolder(file, RemoveSlashes(folder))) = Len(RecognisedReports(reports))
        /\ report_iteration_count = Len(RecognisedReports(reports))

\* C13: a pass of the report loop over a report of a recognised type adds one record
\* and one to the count used for the commas; a pass over a report of another type
\* leaves the file, the log and that count as they are; no other step adds or removes
\* a record; so each folder contributes as many records as it has reports of
\* recognised types.
C13_UnrecognisedTypesAreSkipped ==
    /\ []FolderRecordsMatchReports
    /\ [][Archive =>
            IF pc = "report_loop" /\ report_index' = report_index + 1
            THEN IF Recognised(reports[report_index + 1].type)
                 THEN /\ Len(Records(file')) = Len(Records(file)) + 1
                      /\ report_iteration_count' = report_iteration_count + 1
                 ELSE /\ file' = file /\ log' = log
                      /\ report_iteration_count' = report_iteration_count
            ELSE Records(file') = Records(file)]_vars

\* C13 witness: a folder with a report of an unrecognised type between two recognised
\* ones: two records, one comma between them.
C13_Witness ==
    /\ Archive /\ pc = "report_loop" /\ report_index = 3
    /\ Recognised(reports[1].type) /\ ~Recognised(reports[2].type)
    /\ Recognised(reports[3].type)
    /\ report_iteration_count = 2
    /\ Len(file) = 4 /\ file[1] = Sym("[") /\ IsRecord(file[2])
    /\ file[3] = Sym(",") /\ IsRecord(file[4])

Count(s, x) == Cardinality({i \in DOMAIN s : s[i] = x})
\* the folder lists the scripts iterate
IteratedLists ==
    IF Archive THEN {machine_object.folders_list}
    ELSE {machine_objects_list[i].folders_list : i \in DOMAIN machine_objects_list}
NoRequestForRemovedFolders ==
    /\ \A list \in IteratedLists : Elements(list) \cap remove_folders = {}
    /\ \A j \in DOMAIN log :
          log[j].endpoint = "report" => RemoveSlashes(log[j].folder) \notin remove_folders
\* what the built list keeps of the array the folders request returned
BuiltWithoutRemoved(payload, built) ==
    /\ Elements(built) = (Elements(payload) \ remove_folders) \cup {""}
    /\ \A name \in Elements(built) \ {""} : Count(built, name) = 1

\* C14 (as claimed): whatever the folders array holds, the list built from it has no
\* "System" or "Utilities", every other returned name exactly once and exactly one root
\* entry ""; no report request is sent for "System" or "Utilities".
C14_FolderListOneRoot ==
    /\ []NoRequestForRemovedFolders
    /\ [][pc = "build_folders" =>
            (BuiltWithoutRemoved(folders, folders') /\ Count(folders', "") = 1)]_vars

\* C14 (amended): as claimed, but the list has the root entry "" once when the returned
\* array holds no empty string and twice when it does.
C14_FolderListRootOnceOrTwice ==
    /\ []NoRequestForRemovedFolders
    /\ [][pc = "build_folders" =>
            /\ BuiltWithoutRemoved(folders, folders')
            /\ Count(folders', "") = IF "" \in Elements(folders) THEN 2 ELSE 1
            /\ folders' \in IteratedLists']_vars

\* C14 witness: the archive script finished over a list with two root entries and one
\* folder, for which it sent the only report request.
C14_Witness ==
    /\ Archive /\ pc = "done"
    /\ machine_object.folders_list = <<"", "", "A">>
    /\ Len(log) = 3 /\ log[3].endpoint = "report" /\ log[3].folder = "A/"

\* the text of a JSON array of objects: "[", objects separated by single commas, "]"
WellFormedArray(text) ==
    /\ Len(text) >= 2 /\ text[1] = Sym("[") /\ Last(text) = Sym("]")
    /\ Len(text) = 2 \/ Len(text) % 2 = 1
    /\ \A k \in 2..(Len(text) - 1) :
          IF k % 2 = 0 THEN "id" \in DOMAIN text[k] /\ "name" \in DOMAIN text[k]
          ELSE text[k] = Sym(",")

\* C15: the layers value of every map service record is the text of a well-formed JSON
\* array, with no comma after the last object, whatever the layers payload.
C15_LayersTextWellFormed ==
    (Archive /\ line # <<>> /\ "layers" \in DOMAIN Last(line)) =>
        WellFormedArray(Last(line).layers)

\* C16: the output file is opened, and thereby emptied, only after the token request
\* and the folders request returned their keys; a run that aborts at one of these two
\* requests has not opened the file; a run that aborts later leaves it open, starting
\* with "[" and without the closing "]".
C16_FileOpenedAfterTokenAndFolders ==
    Archive =>
        /\ service_results_file_handler = None => file = <<>>
        /\ service_results_file_handler # None =>
              /\ Len(log) >= 2
              /\ log[1].endpoint = SERVER_URL_GENERATE_TOKEN /\ log[1].outcome = "ok"
              /\ log[2].endpoint = SERVER_URL_ADMIN_SERVICES /\ log[2].outcome = "ok"
              /\ file # <<>> /\ file[1] = Sym("[")
        /\ (pc = "aborted" /\ Len(log) <= 2) => service_results_file_handler = None
        /\ (pc = "aborted" /\ Len(log) > 2) =>
              /\ service_results_file_handler = "open"
              /\ \A i \in DOMAIN file : file[i] # Sym("]")
        /\ pc = "done" <=> service_results_file_handler = "closed"

\* C16 witness: the run aborted at the report request of the second folder, after the
\* record of the first was written: the file is open, emptied, without "]".
C16_Witness ==
    /\ Archive /\ pc = "aborted"
    /\ Len(log) = 4 /\ log[4].endpoint = "report" /\ log[4].outcome = "transport"
    /\ service_results_file_handler = "open"
    /\ Len(file) = 3 /\ IsRecord(file[2]) /\ file[3] = Sym(",")

====
